---- MODULE Spec2Model ----
(***************************************************************************)
(* Model of lambda_functions/data_quality_checker/lambda_function.py:      *)
(*   - the check run: lambda_handler / async_lambda_handler,               *)
(*     check_data_quality, get_data_profile, run_data_quality_checks,      *)
(*     analyze_with_titan_agent, generate_report     (specification Spec)  *)
(*   - the BedrockAgent client: circuit breaker, rate limiter, retry loop  *)
(*     of invoke_agent                          (specification AgentSpec)  *)
(*   - invoke_agent reading the response streams (specification StreamSpec) *)
(*   - coroutines sharing BedrockAgent instances (specification ClientsSpec) *)
(*   - get_data_profile and run_data_quality_checks on every DataFrame     *)
(*                                            (specification ProfilerSpec) *)
(***************************************************************************)
EXTENDS Integers, Sequences, FiniteSets, TLC

(***************************************************************************)
(* Bounds of the model.                                                    *)
(***************************************************************************)
\* largest number of rows of a sampled dataset
MaxRows == 6
\* largest number of columns of a sampled dataset
MaxCols == 2
\* largest number of unhashable values in one column
MaxBad == 1
\* largest number of invoke_agent calls made on one BedrockAgent
MaxCalls == 3
\* longest short pause (seconds) of the caller between two invoke_agent calls
MaxShortGap == 2
\* longest duration (seconds) of one remote request, and longest oversleep
MaxLatency == 1
\* largest number of events in the response stream of one remote request
MaxEvents == 2
\* value of time.time() when the BedrockAgent is constructed
StartTime == 1000

(***************************************************************************)
(* Program constants.                                                      *)
(***************************************************************************)
\* BedrockAgent.CIRCUIT_RESET_TIMEOUT
CIRCUIT_RESET_TIMEOUT == 300
\* BedrockAgent.min_call_interval
min_call_interval == 2
\* default of invoke_agent's max_retries
DEFAULT_MAX_RETRIES == 5
\* null percentage from which run_data_quality_checks reports ERROR
NULL_ERROR_PERCENT == 20
\* number of sample values get_data_profile keeps per column
SAMPLE_HEAD == 5

(***************************************************************************)
(* Data: a sampled DataFrame.                                              *)
(* A cell is None, a string, or an unhashable object (a list): pandas      *)
(* raises TypeError from nunique() on a column holding an unhashable value.*)
(* A key a Python dict does not hold is a field the record does not have.  *)
(***************************************************************************)
NONE == "None"
UNHASHABLE == "[list]"
PlainValues == {"a"}
Values == {NONE} \cup PlainValues \cup {UNHASHABLE}

\* a variable of the program that is not bound yet, or out of scope
ABSENT == [ unset |-> TRUE ]
IsSet(x) == "unset" \notin DOMAIN x

Min(a, b) == IF a < b THEN a ELSE b
Max(a, b) == IF a > b THEN a ELSE b

\* a column of n cells: k None, then plain strings, then u unhashable cells.
\* Row order enters no statistic of get_data_profile but sample_values, so
\* one representative per multiset of cells is drawn.
ColumnCells(n, k, u) ==
    [i \in 1..n |-> IF i <= k THEN NONE
                    ELSE IF i <= n - u THEN "a" ELSE UNHASHABLE]

ColumnsOfLen(n) ==
    { ColumnCells(n, k, u) : k \in 0..n, u \in 0..Min(MaxBad, n) }

\* the DataFrames read_sql_query can return: cols[i] is the i-th column,
\* named i, holding nrows cells
Datasets ==
    UNION { UNION { { [ nrows |-> n,
                        cols |-> [ i \in 1..m |-> [ name |-> i, vals |-> c[i] ] ] ]
                      : c \in [1..m -> ColumnsOfLen(n)] }
                    : m \in 0..MaxCols }
            : n \in 0..MaxRows }

\* df.empty: any axis of length 0
DfEmpty(d) == d.nrows = 0 \/ Len(d.cols) = 0

(***************************************************************************)
(* get_data_profile                                                        *)
(***************************************************************************)
IsNull(v) == v = NONE

NonNull(vals) == SelectSeq(vals, LAMBDA v : ~IsNull(v))

\* col_data.isnull().sum()
NullCount(vals) == Len(SelectSeq(vals, IsNull))

\* col_data.nunique(): distinct non-null values
UniqueCount(vals) == Cardinality({ vals[i] : i \in { j \in 1..Len(vals) : ~IsNull(vals[j]) } })

\* a percentage that is not divided by the number of rows
PercentageNotDivided(x, n) == IF n > 0 THEN x * 100 ELSE 0

\* float(x / n * 100) if n > 0 else 0.0, kept as its integer part: the code
\* only compares a percentage with the integer NULL_ERROR_PERCENT
Percentage(x, n) == IF n > 0 THEN (x * 100) \div n ELSE 0

\* len(str(v)): astype(str) turns None into the string 'None'
StrLen(v) == CASE v = NONE -> 4
               [] v = UNHASHABLE -> 3
               [] v = "a" -> 1
               [] OTHER -> 0

RECURSIVE SumLen(_, _)
SumLen(vals, i) == IF i > Len(vals) THEN 0 ELSE StrLen(vals[i]) + SumLen(vals, i + 1)

MaxLen(vals) == IF Len(vals) = 0 THEN 0
                ELSE CHOOSE m \in { StrLen(vals[i]) : i \in 1..Len(vals) } :
                        \A i \in 1..Len(vals) : StrLen(vals[i]) <= m

MinLen(vals) == IF Len(vals) = 0 THEN 0
                ELSE CHOOSE m \in { StrLen(vals[i]) : i \in 1..Len(vals) } :
                        \A i \in 1..Len(vals) : StrLen(vals[i]) >= m

\* the statements of the try block raise: nunique() on an unhashable cell
ColumnRaises(vals) == \E i \in 1..Len(vals) : vals[i] = UNHASHABLE

\* the stats dictionary of one object column (lines 321-365); avg_length is
\* kept in hundredths
ColumnStats(name, vals) ==
    [ column |-> name,
      dtype |-> "object",
      unique_count |-> UniqueCount(vals),
      null_count |-> NullCount(vals),
      null_percentage |-> Percentage(NullCount(vals), Len(vals)),
      unique_percentage |-> Percentage(UniqueCount(vals), Len(vals)),
      sample_values |-> SubSeq(NonNull(vals), 1, Min(SAMPLE_HEAD, Len(NonNull(vals)))),
      max_length |-> MaxLen(vals),
      min_length |-> MinLen(vals),
      avg_length |-> IF Len(vals) = 0 THEN 0 ELSE (SumLen(vals, 1) * 100) \div Len(vals),
      empty_strings |-> 0 ]

\* the entry the except clause records (lines 369-374)
ColumnError(name) ==
    [ column |-> name, dtype |-> "object", error |-> "Profiling failed" ]

\* one iteration of the loop over df.columns: try / except
ProfileColumn(name, vals) ==
    IF ColumnRaises(vals) THEN ColumnError(name) ELSE ColumnStats(name, vals)

\* a loop that gives up at the first column that raises
RECURSIVE ProfileColumnsAbort(_, _)
ProfileColumnsAbort(cols, i) ==
    IF i > Len(cols) THEN <<>>
    ELSE IF ColumnRaises(cols[i].vals) THEN << ColumnError(cols[i].name) >>
    ELSE << ColumnStats(cols[i].name, cols[i].vals) >> \o ProfileColumnsAbort(cols, i + 1)

\* for column in df.columns: ... profile['columns'][column] = ...
RECURSIVE ProfileColumns(_, _)
ProfileColumns(cols, i) ==
    IF i > Len(cols) THEN <<>>
    ELSE << ProfileColumn(cols[i].name, cols[i].vals) >> \o ProfileColumns(cols, i + 1)

\* a profile that takes len(df.columns) for the number of rows
get_data_profile_columns_as_rows(d) ==
    [ column_count |-> Len(d.cols),
      row_count |-> Len(d.cols),
      columns |-> ProfileColumns(d.cols, 1) ]

get_data_profile(d) ==
    [ column_count |-> Len(d.cols),
      row_count |-> d.nrows,
      columns |-> ProfileColumns(d.cols, 1) ]

\* an empty dict: result['profile'] and result['execution_summary'] at the start
EmptyDict == <<>>

(***************************************************************************)
(* run_data_quality_checks                                                 *)
(***************************************************************************)
HasKey(rec, k) == k \in DOMAIN rec

\* 'WARNING' if col_profile['null_percentage'] < 20 else 'ERROR', with the
\* comparison turned around
NullCheckStatusSwapped(pct) == IF pct < NULL_ERROR_PERCENT THEN "ERROR" ELSE "WARNING"

\* 'WARNING' if col_profile['null_percentage'] < 20 else 'ERROR'
NullCheckStatus(pct) == IF pct < NULL_ERROR_PERCENT THEN "WARNING" ELSE "ERROR"

NullValuesCheck(cp) ==
    [ check_name |-> "null_values_check",
      column |-> cp.column,
      status |-> NullCheckStatus(cp.null_percentage),
      message |-> << cp.null_count, cp.null_percentage >>,
      threshold |-> "0%" ]

\* col_profile['null_count'] raises KeyError on an entry that holds only
\* 'dtype' and 'error'
ChecksRaise(profile) ==
    \E i \in 1..Len(profile.columns) : ~HasKey(profile.columns[i], "null_count")

\* a loop that puts each new finding in front of the list
RECURSIVE NullChecksReversed(_, _)
NullChecksReversed(cps, i) ==
    IF i > Len(cps) THEN <<>>
    ELSE NullChecksReversed(cps, i + 1)
         \o (IF cps[i].null_count > 0 THEN << NullValuesCheck(cps[i]) >> ELSE <<>>)

RECURSIVE NullChecks(_, _)
NullChecks(cps, i) ==
    IF i > Len(cps) THEN <<>>
    ELSE (IF cps[i].null_count > 0 THEN << NullValuesCheck(cps[i]) >> ELSE <<>>)
         \o NullChecks(cps, i + 1)

\* the list returned when no KeyError is raised
run_data_quality_checks(profile) == NullChecks(profile.columns, 1)

(***************************************************************************)
(* status derivation of check_data_quality (lines 587-591)                 *)
(***************************************************************************)
AnyStatus(checks, st) == \E i \in 1..Len(checks) : checks[i].status = st

CountStatus(checks, st) == Cardinality({ i \in 1..Len(checks) : checks[i].status = st })

\* the derivation with the two tests in the wrong order
DeriveStatusWarningFirst(checks, current) ==
    IF AnyStatus(checks, "WARNING") THEN "WARNING"
    ELSE IF AnyStatus(checks, "ERROR") THEN "FAILED"
    ELSE current

\* result['status'] after the if / elif; current is the value it had
DeriveStatus(checks, current) ==
    IF AnyStatus(checks, "ERROR") THEN "FAILED"
    ELSE IF AnyStatus(checks, "WARNING") THEN "WARNING"
    ELSE current

(***************************************************************************)
(* analyze_with_titan_agent: every exception is caught and turned into an  *)
(* error result.  outcome is what happens inside:                          *)
(*   "success"      invoke_model answers                                   *)
(*   "invoke_error" invoke_model raises (inner except, lines 155-163)      *)
(*   "prep_error"   a statement before the call raises (lines 165-174)     *)
(***************************************************************************)
AnalysisOutcomes == {"success", "invoke_error", "prep_error"}

\* does the analysis reach bedrock_runtime.invoke_model
CallsModel(outcome) == outcome \in {"success", "invoke_error"}

analyze_with_titan_agent(analysis_type, outcome) ==
    CASE outcome = "success" ->
           [ status |-> "success", analysis_type |-> analysis_type,
             insights |-> "completion", statistics |-> "stats" ]
      [] outcome = "invoke_error" ->
           [ status |-> "error", analysis_type |-> analysis_type,
             error |-> "Error invoking Claude 2.1" ]
      [] OTHER ->
           [ status |-> "error", analysis_type |-> analysis_type,
             error |-> "Error in analyze_with_titan_agent",
             stack_trace |-> "traceback" ]

(***************************************************************************)
(* generate_report: the sections of the report, in order                   *)
(***************************************************************************)
ReportAI(result) ==
    IF ~HasKey(result, "ai_analysis") THEN <<>>
    ELSE IF HasKey(result.ai_analysis, "insights")
            /\ HasKey(result.ai_analysis, "status")
            /\ result.ai_analysis.status = "success"
         THEN << "AI-Powered Analysis" >>
    ELSE IF HasKey(result.ai_analysis, "error") THEN << "AI Analysis Failed" >>
    ELSE <<>>

generate_report(result) ==
    << "Header" >>
    \o (IF HasKey(result, "error") THEN << "Error Details" >> ELSE <<>>)
    \o (IF DOMAIN result.execution_summary # {} THEN << "Execution Summary" >> ELSE <<>>)
    \o ReportAI(result)
    \o (IF HasKey(result.profile, "columns") /\ Len(result.profile.columns) > 0
        THEN << "Data Profile" >> ELSE <<>>)
    \o (IF Len(result.checks) > 0 THEN << "Data Quality Issues" >> ELSE <<>>)

(***************************************************************************)
(* State                                                                   *)
(***************************************************************************)
VARIABLES
    \* --- one invocation of lambda_handler ---
    env,            \* os.environ and the event, as the handler reads them
    hpc,            \* position of async_lambda_handler / check_data_quality
    sns_topic_arn,  \* local of async_lambda_handler: UNBOUND until line 619
    df,             \* local of check_data_quality: the sampled DataFrame
    result,         \* the result dictionary of check_data_quality
    analyses,       \* local of check_data_quality: the insight slots
    report,         \* local of async_lambda_handler: the rendered report
    response,       \* what lambda_handler returned
    calls,          \* how often each collaborator / component was called
    \* --- one BedrockAgent instance ---
    now,                 \* time.time()
    circuit_open,        \* self._circuit_open
    circuit_reset_time,  \* self._circuit_reset_time
    last_call_time,      \* self.last_call_time
    apc,                 \* position of invoke_agent
    retry_count,         \* local of invoke_agent
    max_retries,         \* argument of the running invoke_agent call
    wake,                \* time the pending asyncio.sleep is due
    outcome,             \* how the last invoke_agent call ended
    log,                 \* history of the calls and remote requests
    stream,              \* response['completion'] of a remote request that answers
    returned,            \* the dictionary the last invoke_agent call returned
    \* --- get_data_profile and run_data_quality_checks called on their own ---
    pure,                \* the DataFrame, its profile, the findings of two calls
    \* --- coroutines calling invoke_agent on BedrockAgent instances ---
    class_attrs,         \* the attributes of the class BedrockAgent
    instances,           \* the __dict__ of each BedrockAgent instance
    tasks,               \* each coroutine: its instance, its position, its call
    wire                 \* history of the remote requests of each instance

runVars == << env, hpc, sns_topic_arn, df, result, analyses, report, response, calls >>

agentVars == << now, circuit_open, circuit_reset_time, last_call_time, apc,
                retry_count, max_retries, wake, outcome, log, stream, returned >>

vars == << env, hpc, sns_topic_arn, df, result, analyses, report, response, calls,
           now, circuit_open, circuit_reset_time, last_call_time, apc,
           retry_count, max_retries, wake, outcome, log, stream, returned, pure,
           class_attrs, instances, tasks, wire >>

poolVars == << class_attrs, instances, tasks, wire >>

\* lines 177-179: the class-level circuit breaker state
ClassAttrs == ("_circuit_open" :> FALSE) @@ ("_circuit_reset_time" :> 0)

\* no BedrockAgent instance is shared by coroutines
NoPool ==
    /\ class_attrs = ClassAttrs
    /\ instances = <<>>
    /\ tasks = <<>>
    /\ wire = <<>>

UNBOUND == "unbound"

\* the outcomes of the notifier collaborator send_notification
NotifyOutcomes == {"ok", "fails"}

\* calls counts the calls of each component and collaborator, and how often
\* the table was missing, the sample empty, each analysis failed, and an
\* upload stored its object
NoCalls == [ profile |-> 0, checks |-> 0, model |-> 0, data_quality |-> 0,
             anomaly_detection |-> 0, upload |-> 0, notify |-> 0, published |-> 0,
             not_found |-> 0, empty_sample |-> 0,
             quality_failed |-> 0, anomaly_failed |-> 0, stored |-> 0 ]

\* S3_BUCKET: is it set; SNS_TOPIC_ARN: its value; TABLE: do the event or
\* GLUE_DATABASE / GLUE_TABLE name a database and a table
Environments ==
    [ S3_BUCKET : BOOLEAN, SNS_TOPIC_ARN : {"", "arn"}, TABLE : BOOLEAN,
      BEDROCK_AGENT_ENABLED : BOOLEAN, ENABLE_ANOMALY_DETECTION : BOOLEAN ]

\* the dictionary check_data_quality starts from (lines 493-501)
InitialResult ==
    [ status |-> "SUCCESS", checks |-> <<>>, profile |-> EmptyDict,
      execution_summary |-> EmptyDict ]

RunInit ==
    /\ env \in Environments
    /\ hpc = "start"
    /\ sns_topic_arn = UNBOUND
    /\ df = ABSENT
    /\ result = ABSENT
    /\ analyses = ABSENT
    /\ report = <<>>
    /\ response = ABSENT
    /\ calls = NoCalls
    /\ pure = ABSENT

\* log is the history of the client: the number of invoke_agent calls and
\* of remote requests, the times of the last two requests and the calls
\* that issued them, the start times of the last two calls, whether the
\* last call slept in the rate limiter, and the call (with its end time)
\* that was made with the default max_retries and saw nothing but
\* throttling from the remote service
NoLog ==
    [ calls |-> 0, requests |-> 0,
      last_request |-> 0, prev_request |-> 0,
      request_call |-> 0, prev_request_call |-> 0,
      call_start |-> 0, prev_call_start |-> 0,
      waited |-> FALSE, paused |-> FALSE,
      throttled_call |-> 0, throttled_out |-> 0,
      answer |-> "none" ]

\* BedrockAgent.__init__ (lines 178-195); no call has been made
NewAgent ==
    /\ now = StartTime
    /\ circuit_open = FALSE
    /\ circuit_reset_time = 0
    /\ last_call_time = 0
    /\ apc = "idle"
    /\ retry_count = 0
    /\ max_retries = 0
    /\ wake = 0
    /\ outcome = "none"
    /\ log = NoLog
    /\ returned = ABSENT

\* a BedrockAgent whose remote requests, when they answer, answer with an
\* empty stream
AgentInit == NewAgent /\ stream = <<>>

Init == RunInit /\ AgentInit /\ NoPool

(***************************************************************************)
(* check_data_quality                                                      *)
(***************************************************************************)
Bump(k) == [calls EXCEPT ![k] = @ + 1]

\* an except clause that records the error but leaves the status alone
FailedResultKeepsStatus(res, msg) ==
    ("error" :> msg)
    @@ [res EXCEPT !.execution_summary = [ total_time_seconds |-> "elapsed",
                                           error |-> msg ]]

\* the except clause of check_data_quality (lines 595-605): result.update(...)
\* and return; df goes out of scope
FailedResult(res, msg) ==
    ("error" :> msg)
    @@ [res EXCEPT !.status = "FAILED",
                   !.execution_summary = [ total_time_seconds |-> "elapsed",
                                           error |-> msg ]]

\* lines 611-624 and 493-503: configuration, then check_data_quality starts
HandlerConfig ==
    /\ hpc = "start"
    /\ IF ~env.S3_BUCKET
       THEN \* raise ValueError before sns_topic_arn is assigned
            /\ hpc' = "except"
            /\ UNCHANGED << env, sns_topic_arn, result >>
       ELSE /\ sns_topic_arn' = env.SNS_TOPIC_ARN
            /\ IF ~env.TABLE
               THEN hpc' = "except" /\ UNCHANGED result
               ELSE hpc' = "verify_table" /\ result' = InitialResult
    /\ UNCHANGED << env, df, analyses, report, response, calls >>
    /\ UNCHANGED agentVars
    /\ UNCHANGED << pure, poolVars >>

\* lines 506-508: wr.catalog.does_table_exist
VerifyTable ==
    /\ hpc = "verify_table"
    /\ \E answer \in {"exists", "missing", "raises"} :
         IF answer = "exists"
         THEN hpc' = "read_sample" /\ UNCHANGED << result, calls >>
         ELSE /\ hpc' = "report"
              /\ result' = FailedResult(result,
                     IF answer = "missing" THEN "Table does not exist"
                     ELSE "catalog error")
              /\ calls' = IF answer = "missing" THEN Bump("not_found") ELSE calls
    /\ UNCHANGED << env, sns_topic_arn, df, analyses, report, response >>
    /\ UNCHANGED agentVars
    /\ UNCHANGED << pure, poolVars >>

\* lines 510-519: wr.athena.read_sql_query and the df.empty test
ReadSample ==
    /\ hpc = "read_sample"
    /\ \/ /\ hpc' = "report"
          /\ result' = FailedResult(result, "read error")
          /\ UNCHANGED << df, calls >>
       \/ \E d \in Datasets :
            IF DfEmpty(d)
            THEN /\ hpc' = "report"
                 /\ result' = FailedResult(result, "No data found in the table")
                 /\ calls' = Bump("empty_sample")
                 /\ UNCHANGED df
            ELSE /\ hpc' = "profile"
                 /\ df' = d
                 /\ UNCHANGED << result, calls >>
    /\ UNCHANGED << env, sns_topic_arn, analyses, report, response >>
    /\ UNCHANGED agentVars
    /\ UNCHANGED << pure, poolVars >>

\* lines 521-524
Profile ==
    /\ hpc = "profile"
    /\ result' = [result EXCEPT !.profile = get_data_profile(df)]
    /\ calls' = Bump("profile")
    /\ hpc' = "checks"
    /\ UNCHANGED << env, sns_topic_arn, df, analyses, report, response >>
    /\ UNCHANGED agentVars
    /\ UNCHANGED << pure, poolVars >>

\* lines 526-529; a KeyError of run_data_quality_checks reaches line 595
RunChecks ==
    /\ hpc = "checks"
    /\ calls' = Bump("checks")
    /\ IF ChecksRaise(result.profile)
       THEN /\ hpc' = "report"
            /\ result' = FailedResult(result, "'null_count'")
            /\ df' = ABSENT
       ELSE /\ hpc' = "ai"
            /\ result' = [result EXCEPT !.checks = run_data_quality_checks(result.profile)]
            /\ UNCHANGED df
    /\ UNCHANGED << env, sns_topic_arn, analyses, report, response >>
    /\ UNCHANGED agentVars
    /\ UNCHANGED << pure, poolVars >>

\* lines 532-543: BEDROCK_AGENT_ENABLED and the data-quality analysis
QualityAnalysis ==
    /\ hpc = "ai"
    /\ IF ~env.BEDROCK_AGENT_ENABLED
       THEN /\ hpc' = "summary"
            /\ UNCHANGED << analyses, calls >>
       ELSE \E o \in AnalysisOutcomes :
              /\ analyses' = [ data_quality |-> analyze_with_titan_agent("data_quality", o) ]
              /\ calls' = [calls EXCEPT !.data_quality = @ + 1,
                                        !.model = @ + (IF CallsModel(o) THEN 1 ELSE 0),
                                        !.quality_failed = @ + (IF o = "success" THEN 0 ELSE 1)]
              /\ hpc' = "anomaly"
    /\ UNCHANGED << env, sns_topic_arn, df, result, report, response >>
    /\ UNCHANGED agentVars
    /\ UNCHANGED << pure, poolVars >>

\* the second analysis stored under the key of the first
RecordAnomalyWrongSlot(slots, anomaly) == [ data_quality |-> anomaly ]

\* analyses['anomaly_detection'] = anomaly_analysis (line 556)
RecordAnomaly(slots, anomaly) == ("anomaly_detection" :> anomaly) @@ slots

\* a run that is marked FAILED when an analysis gave an error
RecordAnalysesFailing(res, slots) ==
    IF \E k \in DOMAIN slots : slots[k].status = "error"
    THEN ("ai_analysis" :> slots) @@ [res EXCEPT !.status = "FAILED"]
    ELSE ("ai_analysis" :> slots) @@ res

\* result['ai_analysis'] = analyses (line 566)
RecordAnalyses(res, slots) == ("ai_analysis" :> slots) @@ res

\* lines 545-566: ENABLE_ANOMALY_DETECTION, the second analysis, and
\* result['ai_analysis'] = analyses.  analyze_with_titan_agent returns its
\* failures, so the handlers of lines 557 and 568 have nothing to catch.
AnomalyAnalysis ==
    /\ hpc = "anomaly"
    /\ IF ~env.ENABLE_ANOMALY_DETECTION
       THEN /\ UNCHANGED << analyses, calls >>
            /\ result' = RecordAnalyses(result, analyses)
       ELSE \E o \in AnalysisOutcomes :
              /\ analyses' = RecordAnomaly(analyses,
                                 analyze_with_titan_agent("anomaly_detection", o))
              /\ calls' = [calls EXCEPT !.anomaly_detection = @ + 1,
                                        !.model = @ + (IF CallsModel(o) THEN 1 ELSE 0),
                                        !.anomaly_failed = @ + (IF o = "success" THEN 0 ELSE 1)]
              /\ result' = RecordAnalyses(result, analyses')
    /\ hpc' = "summary"
    /\ UNCHANGED << env, sns_topic_arn, df, report, response >>
    /\ UNCHANGED agentVars
    /\ UNCHANGED << pure, poolVars >>

\* lines 578-593: execution summary, status, return
Summary ==
    /\ hpc = "summary"
    /\ result' = [result EXCEPT
                    !.execution_summary =
                        [ rows_processed |-> df.nrows,
                          total_time_seconds |-> "elapsed",
                          checks_performed |-> Len(result.checks),
                          checks_failed |-> CountStatus(result.checks, "ERROR"),
                          checks_warning |-> CountStatus(result.checks, "WARNING") ],
                    !.status = DeriveStatus(result.checks, result.status)]
    /\ df' = ABSENT
    /\ hpc' = "report"
    /\ UNCHANGED << env, sns_topic_arn, analyses, report, response, calls >>
    /\ UNCHANGED agentVars
    /\ UNCHANGED << pure, poolVars >>

(***************************************************************************)
(* async_lambda_handler after check_data_quality has returned              *)
(***************************************************************************)
Response200 ==
    [ statusCode |-> 200,
      body |-> [ status |-> "success", report_location |-> "s3://bucket/key",
                 execution_summary |-> result.execution_summary ] ]

Response500 ==
    [ statusCode |-> 500,
      body |-> [ error |-> "Failed to process data quality check" ] ]

\* line 630
GenerateReport ==
    /\ hpc = "report"
    /\ report' = generate_report(result)
    /\ hpc' = "upload"
    /\ UNCHANGED << env, sns_topic_arn, df, result, analyses, response, calls >>
    /\ UNCHANGED agentVars
    /\ UNCHANGED << pure, poolVars >>

\* lines 632-647: json.dump(result) and wr.s3.upload
Upload ==
    /\ hpc = "upload"
    /\ \E ok \in BOOLEAN :
         /\ hpc' = IF ok THEN "notify" ELSE "except"
         /\ calls' = [calls EXCEPT !.upload = @ + 1,
                                   !.stored = @ + (IF ok THEN 1 ELSE 0)]
    /\ UNCHANGED << env, sns_topic_arn, df, result, analyses, report, response >>
    /\ UNCHANGED agentVars
    /\ UNCHANGED << pure, poolVars >>

\* lines 649-664: the notification, then the 200 response
Notify ==
    /\ hpc = "notify"
    /\ IF sns_topic_arn = ""
       THEN /\ hpc' = "returned"
            /\ response' = Response200
            /\ UNCHANGED calls
       ELSE \E sent \in NotifyOutcomes :
              /\ calls' = [calls EXCEPT !.notify = @ + 1,
                                        !.published = @ + (IF sent = "ok" THEN 1 ELSE 0)]
              /\ IF sent = "ok"
                 THEN hpc' = "returned" /\ response' = Response200
                 ELSE hpc' = "except" /\ UNCHANGED response
    /\ UNCHANGED << env, sns_topic_arn, df, result, analyses, report >>
    /\ UNCHANGED agentVars
    /\ UNCHANGED << pure, poolVars >>

\* lines 666-684: the except clause.  Reading sns_topic_arn before line 619
\* has run raises UnboundLocalError; an exception of send_notification
\* raised here has no handler.  Both leave lambda_handler.
Except ==
    /\ hpc = "except"
    /\ IF sns_topic_arn = UNBOUND
       THEN /\ hpc' = "raised"
            /\ UNCHANGED << response, calls >>
       ELSE IF sns_topic_arn = ""
       THEN /\ hpc' = "returned"
            /\ response' = Response500
            /\ UNCHANGED calls
       ELSE \E sent \in NotifyOutcomes :
              /\ calls' = [calls EXCEPT !.notify = @ + 1,
                                        !.published = @ + (IF sent = "ok" THEN 1 ELSE 0)]
              /\ IF sent = "ok"
                 THEN hpc' = "returned" /\ response' = Response500
                 ELSE hpc' = "raised" /\ UNCHANGED response
    /\ UNCHANGED << env, sns_topic_arn, df, result, analyses, report >>
    /\ UNCHANGED agentVars
    /\ UNCHANGED << pure, poolVars >>

RunNext ==
    \/ HandlerConfig
    \/ VerifyTable
    \/ ReadSample
    \/ Profile
    \/ RunChecks
    \/ QualityAnalysis
    \/ AnomalyAnalysis
    \/ Summary
    \/ GenerateReport
    \/ Upload
    \/ Notify
    \/ Except

\* one invocation of lambda_handler
Spec == Init /\ [][RunNext]_vars

(***************************************************************************)
(* Properties of the check run                                             *)
(***************************************************************************)
\* check_data_quality has returned its result to async_lambda_handler
CdqReturned ==
    /\ IsSet(result)
    /\ hpc \in {"report", "upload", "notify", "except", "returned", "raised"}

\* ... through the return of line 593
CdqCompleted == CdqReturned /\ ~HasKey(result, "error")

\* the cells of column c of the DataFrame that are None
NullCells(c) == { j \in 1..Len(c.vals) : c.vals[j] = NONE }

\* the findings about the column named n
FindingsOf(checks, n) == { i \in 1..Len(checks) : checks[i].column = n }

\* C3: lambda_handler never lets an exception escape: whatever the event,
\* the environment and the collaborators do, it ends by returning a
\* response that has a statusCode.
C3_NeverEscapes ==
    /\ hpc # "raised"
    /\ hpc = "returned" => HasKey(response, "statusCode")

\* C4: when check_data_quality ended with a terminal error (table missing,
\* sample empty, read raised), the response of lambda_handler is not the
\* success response (statusCode 200 with body status 'success').
C4_FailureDistinguished ==
    (hpc = "returned" /\ IsSet(result) /\ HasKey(result, "error")
        /\ result.error \in {"Table does not exist", "No data found in the table",
                             "read error", "catalog error"})
    => ~(response.statusCode = 200 /\ response.body.status = "success")

\* C5: on a completed run the status is FAILED if a finding has status
\* ERROR, otherwise WARNING if a finding has status WARNING, otherwise
\* SUCCESS.
C5_StatusAggregation ==
    CdqCompleted =>
        LET errors == { i \in 1..Len(result.checks) : result.checks[i].status = "ERROR" }
            warnings == { i \in 1..Len(result.checks) : result.checks[i].status = "WARNING" }
        IN /\ errors # {} => result.status = "FAILED"
           /\ (errors = {} /\ warnings # {}) => result.status = "WARNING"
           /\ (errors = {} /\ warnings = {}) => result.status = "SUCCESS"

\* a completed run whose findings hold a WARNING and an ERROR
C5_Witness ==
    /\ CdqCompleted
    /\ \E i, j \in 1..Len(result.checks) :
          result.checks[i].status = "WARNING" /\ result.checks[j].status = "ERROR"
    /\ result.status = "FAILED"

\* C6: once run_data_quality_checks has returned, every column of the
\* DataFrame without None cells has no finding, and every column with None
\* cells has exactly one finding, a null_values_check that is WARNING when
\* fewer than 20 percent of the cells are None and ERROR otherwise.
C6_NullFindings ==
    hpc \in {"ai", "anomaly", "summary"} =>
        /\ \A i \in 1..Len(result.checks) :
              \E c \in 1..Len(df.cols) : result.checks[i].column = df.cols[c].name
        /\ \A c \in 1..Len(df.cols) :
              LET nulls == Cardinality(NullCells(df.cols[c]))
                  found == FindingsOf(result.checks, df.cols[c].name)
              IN IF nulls = 0
                 THEN found = {}
                 ELSE /\ Cardinality(found) = 1
                      /\ \A i \in found :
                            /\ result.checks[i].check_name = "null_values_check"
                            /\ result.checks[i].status =
                                 IF nulls * 100 < NULL_ERROR_PERCENT * df.nrows
                                 THEN "WARNING" ELSE "ERROR"

\* one None in three rows gave one ERROR finding, next to a column without
\* None that gave none
C6_Witness ==
    /\ hpc = "ai"
    /\ df.nrows = 3
    /\ Len(df.cols) = 2
    /\ Cardinality(NullCells(df.cols[1])) = 0
    /\ Cardinality(NullCells(df.cols[2])) = 1
    /\ Len(result.checks) = 1
    /\ result.checks[1].column = 2
    /\ result.checks[1].status = "ERROR"

\* the profile holds the error marker of a column that failed
HasErrorMarker ==
    /\ HasKey(result.profile, "columns")
    /\ \E i \in 1..Len(result.profile.columns) : HasKey(result.profile.columns[i], "error")

\* C7: a column that could not be profiled does not abort the run: the
\* rule evaluation completes and check_data_quality returns a result
\* without 'error', with the status derived from the other columns.
C7_ColumnFailureContained ==
    (CdqReturned /\ HasErrorMarker) =>
        /\ ~HasKey(result, "error")
        /\ result.status = DeriveStatus(result.checks, "SUCCESS")

\* the DataFrame without the columns whose profiling raises
DropFailing(d) ==
    [d EXCEPT !.cols = SelectSeq(d.cols, LAMBDA c : ~ColumnRaises(c.vals))]

\* C8: get_data_profile returns normally with one entry per column; the
\* entry of a column whose statistics raise holds only its type tag and an
\* error marker; the other entries are those of the profile of the
\* DataFrame without the failing columns.
C8_ColumnIsolation ==
    hpc \in {"checks", "ai", "anomaly", "summary"} =>
        LET entries == result.profile.columns IN
        /\ Len(entries) = Len(df.cols)
        /\ \A i \in 1..Len(df.cols) :
              /\ entries[i].column = df.cols[i].name
              /\ ColumnRaises(df.cols[i].vals) =>
                    DOMAIN entries[i] = {"column", "dtype", "error"}
              /\ ~ColumnRaises(df.cols[i].vals) => ~HasKey(entries[i], "error")
        /\ SelectSeq(entries, LAMBDA e : ~HasKey(e, "error"))
             = get_data_profile(DropFailing(df)).columns

\* a failing first column followed by a column that was profiled
C8_Witness ==
    /\ hpc = "checks"
    /\ Len(df.cols) = 2
    /\ ColumnRaises(df.cols[1].vals)
    /\ ~ColumnRaises(df.cols[2].vals)
    /\ HasKey(result.profile.columns[1], "error")
    /\ result.profile.columns[2].null_count > 0

\* C9: when the table does not exist or the sample is empty,
\* check_data_quality returns status FAILED with an 'error' field, an empty
\* profile, no findings and an execution summary holding only the elapsed
\* time and the error, after no profiling, rule evaluation or model call.
C9_FailFast ==
    (CdqReturned /\ (calls.not_found > 0 \/ calls.empty_sample > 0)) =>
        /\ result.status = "FAILED"
        /\ HasKey(result, "error")
        /\ result.profile = EmptyDict
        /\ result.checks = <<>>
        /\ DOMAIN result.execution_summary = {"total_time_seconds", "error"}
        /\ result.execution_summary.error = result.error
        /\ calls.profile = 0
        /\ calls.checks = 0
        /\ calls.model = 0
        /\ calls.data_quality = 0 /\ calls.anomaly_detection = 0

\* check_data_quality has returned after read_sql_query gave an empty sample
C9_Witness ==
    /\ CdqReturned
    /\ calls.empty_sample = 1
    /\ result.error = "No data found in the table"

\* C10 (state part): a failed anomaly-detection analysis is recorded in
\* the anomaly_detection slot next to the data-quality slot, the run goes on
\* to the execution summary and the status derivation, and a failed
\* data-quality analysis is followed by the anomaly-detection analysis
\* whenever that one is enabled.
C10_SlotsRecorded ==
    /\ calls.anomaly_failed > 0 =>
          /\ hpc # "anomaly"
          /\ DOMAIN analyses = {"data_quality", "anomaly_detection"}
          /\ analyses.anomaly_detection.status = "error"
          /\ analyses.anomaly_detection.analysis_type = "anomaly_detection"
          /\ HasKey(analyses.anomaly_detection, "error")
          /\ analyses.data_quality.analysis_type = "data_quality"
          /\ analyses.data_quality.status =
                IF calls.quality_failed > 0 THEN "error" ELSE "success"
          /\ result.ai_analysis = analyses
          /\ hpc # "summary" =>
                /\ ~HasKey(result, "error")
                /\ HasKey(result.execution_summary, "checks_performed")
                /\ result.status = DeriveStatus(result.checks, "SUCCESS")
    /\ (calls.quality_failed > 0 /\ hpc # "anomaly") =>
          calls.anomaly_detection = IF env.ENABLE_ANOMALY_DETECTION THEN 1 ELSE 0

\* C10 (step part): no step changes a data-quality slot that is recorded
C10_QualitySlotKept ==
    IsSet(analyses) => (analyses'.data_quality = analyses.data_quality)

\* C10: the two analyses of check_data_quality are independent.
C10_IndependentAnalyses == [](C10_SlotsRecorded) /\ [][C10_QualitySlotKept]_vars

\* the run returned after the data-quality analysis succeeded and the
\* anomaly-detection analysis failed
C10_Witness ==
    /\ CdqCompleted
    /\ calls.anomaly_failed = 1
    /\ calls.quality_failed = 0
    /\ result.ai_analysis.data_quality.status = "success"
    /\ result.ai_analysis.anomaly_detection.status = "error"

\* C14: with an SNS topic configured, a run that ends with the 200
\* response has published one notification when a finding has status ERROR
\* and none when there are no findings.
C14_NotifyOnFailuresOnly ==
    (hpc = "returned" /\ CdqCompleted /\ sns_topic_arn = "arn"
        /\ response.statusCode = 200) =>
        /\ AnyStatus(result.checks, "ERROR") => calls.published = 1
        /\ Len(result.checks) = 0 => calls.published = 0

\* C15: the result of a completed run reports the row count, and its
\* checks hold a row-count check, a null check for every column with null
\* values and a unique-values check for the first column, the identifier.
C15_ChecksOfTheTests ==
    CdqCompleted =>
        /\ HasKey(result, "row_count")
        /\ \E i \in 1..Len(result.checks) : result.checks[i].check_name = "row_count"
        /\ \A c \in 1..Len(result.profile.columns) :
              result.profile.columns[c].null_count > 0 =>
                  FindingsOf(result.checks, result.profile.columns[c].column) # {}
        /\ \E i \in 1..Len(result.checks) :
              /\ result.checks[i].check_name = "unique_values"
              /\ result.checks[i].column = result.profile.columns[1].column

\* C16: a run in which check_data_quality returned and that ends with the
\* 200 response has stored two objects, the result document and the
\* rendered report.
C16_TwoArtifacts ==
    (hpc = "returned" /\ CdqReturned /\ response.statusCode = 200) =>
        calls.stored = 2

\* C17: once the result is stored, a send_notification that fails is not
\* escalated: lambda_handler returns the 200 response with the report
\* location and send_notification is not called a second time.
C17_NotifyFailureContained ==
    (calls.stored = 1 /\ calls.notify > calls.published) =>
        /\ hpc = "returned"
        /\ response.statusCode = 200
        /\ HasKey(response.body, "report_location")
        /\ calls.notify = 1

\* C26: every remote model call of a check run is a request of the
\* BedrockAgent client, sent after its breaker check and its rate limiter,
\* and an error insight is recorded only after the client has given up.
C26_ModelCallsThroughClient ==
    /\ calls.model <= log.requests
    /\ (calls.model > 0 /\ calls.quality_failed + calls.anomaly_failed > 0)
          => outcome = "error"

\* the sections of the report
Sections == { report[i] : i \in 1..Len(report) }

\* C27: the report of a result built by check_data_quality holds the AI
\* insights section when an analysis succeeded and the AI failure text when
\* an analysis failed.
C27_AISectionsEmitted ==
    (report # <<>> /\ HasKey(result, "ai_analysis")) =>
        /\ (\E k \in DOMAIN result.ai_analysis :
               result.ai_analysis[k].status = "success")
              => "AI-Powered Analysis" \in Sections
        /\ (\E k \in DOMAIN result.ai_analysis :
               result.ai_analysis[k].status = "error")
              => "AI Analysis Failed" \in Sections

\* C30: the status that check_data_quality returns is decided by the
\* findings and by run-aborting errors alone, whatever the analyses gave,
\* and a result has a top-level 'error' only if its status is FAILED.
C30_StatusIgnoresInsights ==
    CdqReturned =>
        IF HasKey(result, "error")
        THEN result.status = "FAILED" /\ ~HasKey(result, "ai_analysis")
        ELSE result.status =
                IF \E i \in 1..Len(result.checks) : result.checks[i].status = "ERROR"
                THEN "FAILED"
                ELSE IF \E i \in 1..Len(result.checks) : result.checks[i].status = "WARNING"
                THEN "WARNING"
                ELSE "SUCCESS"

\* a completed run without findings whose two analyses both failed
C30_Witness ==
    /\ CdqCompleted
    /\ Len(result.checks) = 0
    /\ result.status = "SUCCESS"
    /\ HasKey(result, "ai_analysis")
    /\ \A k \in {"data_quality", "anomaly_detection"} :
          /\ k \in DOMAIN result.ai_analysis
          /\ result.ai_analysis[k].status = "error"

(***************************************************************************)
(* BedrockAgent                                                            *)
(* Time passes while the caller pauses between two calls, during           *)
(* asyncio.sleep and while a remote request is answered.                   *)
(***************************************************************************)
\* the values of max_retries the callers pass
MaxRetriesArgs == {0, 1, DEFAULT_MAX_RETRIES}

\* the pauses of the caller between two calls: short ones, and the
\* cool-down of the breaker missed by a second and met
Pauses == (1..MaxShortGap) \cup {CIRCUIT_RESET_TIMEOUT - 1, CIRCUIT_RESET_TIMEOUT}

\* the bytes a chunk can carry: UTF-8 of a space, of the letter x, of e-acute,
\* and each of the two bytes of e-acute alone
ChunkBytes == { <<32>>, <<120>>, <<195, 169>>, <<195>>, <<169>> }

\* the events of a response stream: without 'chunk', with a chunk without
\* 'bytes', with a chunk of bytes
Events ==
    { [ trace |-> "t" ], [ chunk |-> [ attribution |-> "a" ] ] }
        \cup { [ chunk |-> [ bytes |-> b ] ] : b \in ChunkBytes }

\* response['completion']
Streams == UNION { [1..n -> Events] : n \in 0..MaxEvents }

\* bytes.decode('utf-8') (line 268) on code points below 2048: the text as
\* the sequence of its code points, or UnicodeDecodeError
RECURSIVE decode(_)
decode(b) ==
    IF b = <<>> THEN [ ok |-> TRUE, text |-> <<>> ]
    ELSE IF b[1] < 128
    THEN LET rest == decode(Tail(b))
         IN  [ ok |-> rest.ok, text |-> << b[1] >> \o rest.text ]
    ELSE IF b[1] \in 194..223 /\ Len(b) >= 2 /\ b[2] \in 128..191
    THEN LET rest == decode(SubSeq(b, 3, Len(b)))
         IN  [ ok |-> rest.ok,
               text |-> << (b[1] - 192) * 64 + (b[2] - 128) >> \o rest.text ]
    ELSE [ ok |-> FALSE, text |-> <<>> ]

\* event.get('chunk', {}) (line 266)
ChunkOf(event) == IF HasKey(event, "chunk") THEN event.chunk ELSE EmptyDict

\* lines 264-268: completion after the first i events of the stream, or the
\* UnicodeDecodeError of the first chunk that does not decode
RECURSIVE Completion(_, _)
Completion(events, i) ==
    IF i = 0 THEN [ ok |-> TRUE, text |-> <<>> ]
    ELSE LET before == Completion(events, i - 1)
             chunk == ChunkOf(events[i])
         IN  IF ~before.ok \/ ~HasKey(chunk, "bytes") THEN before
             ELSE LET d == decode(chunk.bytes)
                  IN  IF d.ok
                      THEN [ ok |-> TRUE, text |-> before.text \o d.text ]
                      ELSE [ ok |-> FALSE, text |-> <<>> ]

\* the white space of str.strip
IsSpace(c) == c \in { 9, 10, 11, 12, 13, 28, 29, 30, 31, 32, 133, 160 }

RECURSIVE lstrip(_)
lstrip(text) ==
    IF text # <<>> /\ IsSpace(text[1]) THEN lstrip(Tail(text)) ELSE text

RECURSIVE rstrip(_)
rstrip(text) ==
    IF text # <<>> /\ IsSpace(text[Len(text)])
    THEN rstrip(SubSeq(text, 1, Len(text) - 1))
    ELSE text

\* completion.strip() (line 272)
strip(text) == rstrip(lstrip(text))

\* the return of lines 270-273
SuccessResult(events) ==
    [ status |-> "success",
      response |-> strip(Completion(events, Len(events)).text) ]

\* the return of lines 292-298 after the exception e
ErrorResult(e, rc) ==
    [ status |-> "error", details |-> e, retry_attempts |-> rc + 1 ]

\* the return of lines 301-305
MaxRetriesExceeded ==
    [ status |-> "error", error |-> "Max retries exceeded" ]

\* what the try block of lines 244-273 raises when the remote request is
\* answered by a: the exception of the request, the UnicodeDecodeError of a
\* chunk, or nothing
Raised(a, events) ==
    IF a # "success" THEN a
    ELSE IF Completion(events, Len(events)).ok THEN "none"
    ELSE "UnicodeDecodeError"

\* a retry loop that retries after every exception
RetryableAnyError(e, rc, mr) == rc < mr - 1

\* line 278: a throttling error with attempts left is retried
Retryable(e, rc, mr) == e = "throttlingException" /\ rc < mr - 1

\* a breaker that trips one attempt late
ExhaustedLate(rc, mr) == rc >= mr

\* line 289: the failed attempt was the last one
Exhausted(rc, mr) == rc >= mr - 1

\* what client.invoke_agent does: it answers, or raises an exception whose
\* text holds 'throttlingException', or raises another exception
RemoteAnswers == {"success", "throttlingException", "other"}

\* a breaker that still rejects when exactly CIRCUIT_RESET_TIMEOUT has passed
CircuitRejectsAtTimeout(t) ==
    circuit_open /\ t - circuit_reset_time <= CIRCUIT_RESET_TIMEOUT

\* _check_circuit_breaker raises (lines 200-202)
CircuitRejects(t) ==
    circuit_open /\ t - circuit_reset_time < CIRCUIT_RESET_TIMEOUT

\* a breaker whose cool-down starts again at every rejected call
ResetTimeAfterRejectRestarted(t, reset) == t

\* lines 201-202: the raise leaves self._circuit_reset_time as it is
ResetTimeAfterReject(t, reset) == reset

\* a rate limiter that sleeps for the time already elapsed
SleepTimeElapsed(current_time, last) == current_time - last

\* sleep_time of _enforce_rate_limit (line 217)
SleepTime(current_time, last) == min_call_interval - (current_time - last)

\* the history of a call that starts at time t
CallStarted(t, mr) ==
    [log EXCEPT !.calls = @ + 1,
                !.prev_call_start = log.call_start,
                !.call_start = t,
                !.paused = FALSE,
                !.waited = FALSE,
                !.answer = "none"]

\* the history of a remote request sent at time t
RequestSent(lg, t) ==
    [lg EXCEPT !.requests = @ + 1,
               !.prev_request = lg.last_request,
               !.last_request = t,
               !.prev_request_call = lg.request_call,
               !.request_call = lg.calls]

\* a rate limiter that never notes the time of the call
StampedCallTimeKept(t, last) == last

\* line 220: self.last_call_time = time.time()
StampedCallTime(t, last) == t

\* line 220, then lines 240-261: last_call_time is set and the loop entered;
\* the request is sent at time t, or max_retries is not positive and
\* line 301 returns
EnterLoop(t, mr, lg) ==
    /\ last_call_time' = StampedCallTime(t, last_call_time)
    /\ retry_count' = 0
    /\ IF retry_count' < mr
       THEN /\ apc' = "request"
            /\ outcome' = "running"
            /\ returned' = ABSENT
            /\ log' = RequestSent(lg, t)
       ELSE /\ apc' = "idle"
            /\ outcome' = "error"
            /\ returned' = MaxRetriesExceeded
            /\ log' = lg

\* invoke_agent is called (lines 234-238): breaker check, then the rate
\* limiter up to its sleep
InvokeAgent ==
    /\ apc = "idle"
    /\ log.calls < MaxCalls
    /\ \E mr \in MaxRetriesArgs :
         /\ max_retries' = mr
         /\ IF CircuitRejects(now)
            THEN \* raise Exception("Circuit breaker is open. ...")
                 /\ outcome' = "circuit_open"
                 /\ returned' = ABSENT
                 /\ log' = CallStarted(now, mr)
                 /\ circuit_reset_time' = ResetTimeAfterReject(now, circuit_reset_time)
                 /\ UNCHANGED << circuit_open, last_call_time, apc, retry_count, wake >>
            ELSE /\ circuit_open' = FALSE
                 /\ UNCHANGED circuit_reset_time
                 /\ IF now - last_call_time < min_call_interval
                    THEN /\ apc' = "rate_limit_sleep"
                         /\ wake' = now + SleepTime(now, last_call_time)
                         /\ outcome' = "running"
                         /\ returned' = ABSENT
                         /\ log' = [CallStarted(now, mr) EXCEPT !.waited = TRUE]
                         /\ UNCHANGED << last_call_time, retry_count >>
                    ELSE /\ EnterLoop(now, mr, CallStarted(now, mr))
                         /\ UNCHANGED wake
    /\ UNCHANGED << now, stream >>
    /\ UNCHANGED runVars
    /\ UNCHANGED << pure, poolVars >>

\* asyncio.sleep(sleep_time) of _enforce_rate_limit is over (lines 219-220)
RateLimitWake ==
    /\ apc = "rate_limit_sleep"
    /\ \E late \in 0..MaxLatency :
         /\ now' = Max(now, wake) + late
         /\ EnterLoop(now', max_retries, log)
    /\ UNCHANGED << circuit_open, circuit_reset_time, max_retries, wake, stream >>
    /\ UNCHANGED runVars
    /\ UNCHANGED << pure, poolVars >>

\* the history when a call ends at time t after the answer a: a call made
\* with the default max_retries that saw only throttling is remembered, and
\* forgotten when a later request is answered otherwise
CallEnded(a, t) ==
    IF a = "throttlingException" /\ max_retries = DEFAULT_MAX_RETRIES
    THEN [log EXCEPT !.throttled_call = log.calls, !.throttled_out = t,
                     !.answer = a]
    ELSE IF a = "throttlingException" THEN [log EXCEPT !.answer = a]
    ELSE [log EXCEPT !.throttled_call = 0, !.throttled_out = 0, !.answer = a]

\* client.invoke_agent answers or raises, and the stream of an answer is
\* read (lines 261-298).  On a throttling error with retries left, line 279
\* evaluates random.uniform: the module does not import random, so NameError
\* leaves invoke_agent from inside the except clause, before the sleep and
\* before retry_count += 1.
RemoteAnswer ==
    /\ apc = "request"
    /\ \E a \in RemoteAnswers, took \in 0..MaxLatency :
         LET e == Raised(a, stream)
         IN  /\ now' = now + took
             /\ log' = CallEnded(a, now')
             /\ IF e = "none"
                THEN /\ outcome' = "success"
                     /\ returned' = SuccessResult(stream)
                     /\ UNCHANGED << circuit_open, circuit_reset_time >>
                ELSE IF Retryable(e, retry_count, max_retries)
                THEN /\ outcome' = "NameError"
                     /\ returned' = ABSENT
                     /\ UNCHANGED << circuit_open, circuit_reset_time >>
                ELSE /\ outcome' = "error"
                     /\ returned' = ErrorResult(e, retry_count)
                     /\ IF Exhausted(retry_count, max_retries)
                        THEN \* _trip_circuit_breaker
                             circuit_open' = TRUE /\ circuit_reset_time' = now'
                        ELSE UNCHANGED << circuit_open, circuit_reset_time >>
    /\ apc' = "idle"
    /\ UNCHANGED << last_call_time, retry_count, max_retries, wake, stream >>
    /\ UNCHANGED runVars
    /\ UNCHANGED << pure, poolVars >>

\* the caller lets time pass before its next call
Pause ==
    /\ apc = "idle"
    /\ ~log.paused
    /\ log.calls < MaxCalls
    /\ \E d \in Pauses : now' = now + d
    /\ log' = [log EXCEPT !.paused = TRUE]
    /\ UNCHANGED << circuit_open, circuit_reset_time, last_call_time, apc,
                    retry_count, max_retries, wake, outcome, stream, returned >>
    /\ UNCHANGED runVars
    /\ UNCHANGED << pure, poolVars >>

AgentNext ==
    \/ InvokeAgent
    \/ RateLimitWake
    \/ RemoteAnswer
    \/ Pause

\* no check run is going on beside the client
AgentOnly ==
    /\ env = [ S3_BUCKET |-> TRUE, SNS_TOPIC_ARN |-> "", TABLE |-> TRUE,
               BEDROCK_AGENT_ENABLED |-> TRUE, ENABLE_ANOMALY_DETECTION |-> TRUE ]
    /\ hpc = "start"
    /\ sns_topic_arn = UNBOUND
    /\ df = ABSENT
    /\ result = ABSENT
    /\ analyses = ABSENT
    /\ report = <<>>
    /\ response = ABSENT
    /\ calls = NoCalls

\* a BedrockAgent has been constructed
InitAgent == AgentOnly /\ AgentInit /\ pure = ABSENT /\ NoPool

\* the calls of invoke_agent on one BedrockAgent
AgentSpec == InitAgent /\ [][AgentNext]_vars

(***************************************************************************)
(* Properties of the BedrockAgent                                          *)
(***************************************************************************)
\* the running or last call started inside the cool-down that a call with
\* the default max_retries, answered by throttling only, should have begun
InCoolDown ==
    /\ log.throttled_call > 0
    /\ log.calls > log.throttled_call
    /\ log.call_start - log.throttled_out < CIRCUIT_RESET_TIMEOUT

\* C1: after an invoke_agent call with the default max_retries whose remote
\* attempts were all throttled, every call started within
\* CIRCUIT_RESET_TIMEOUT fails at once with the circuit-open error and
\* sends no remote request.
C1_OpenAfterThrottling ==
    InCoolDown =>
        /\ apc = "idle"
        /\ outcome = "circuit_open"
        /\ log.request_call <= log.throttled_call

\* the two last calls each sent a request, and the second started less than
\* min_call_interval after the first
CloseCalls ==
    /\ log.calls >= 2
    /\ log.request_call = log.calls
    /\ log.prev_request_call = log.calls - 1
    /\ log.call_start - log.prev_call_start < min_call_interval

\* C2: when the second of two sequential invoke_agent calls starts less
\* than min_call_interval after the first, its remote request is sent at
\* least min_call_interval after the request of the first; the caller sleeps
\* until then and is not turned away.
C2_MinimumInterval ==
    /\ CloseCalls => log.last_request - log.prev_request >= min_call_interval
    /\ apc = "rate_limit_sleep" =>
          /\ wake >= last_call_time + min_call_interval
          /\ outcome = "running"

\* the second call slept in the rate limiter and then sent its request
C2_Witness ==
    /\ CloseCalls
    /\ log.waited
    /\ apc = "request"
    /\ log.last_request - log.prev_request = min_call_interval

\* C19: whenever invoke_agent exhausts its retries (the attempt numbered
\* max_retries fails), it returns a result with status 'error' and leaves
\* the circuit breaker open with its reset time set to the time of the trip.
C19_ExhaustedTripsBreaker ==
    [][ ( /\ apc = "request"
          /\ apc' = "idle"
          /\ retry_count + 1 = max_retries
          /\ outcome' # "success" )
        => ( /\ IsSet(returned')
             /\ returned'.status = "error"
             /\ circuit_open'
             /\ circuit_reset_time' = now' ) ]_vars

\* the only attempt of a call made with max_retries = 1 was throttled
C19_Witness ==
    /\ apc = "idle"
    /\ max_retries = 1
    /\ log.request_call = log.calls
    /\ log.answer = "throttlingException"
    /\ IsSet(returned)
    /\ returned.status = "error"
    /\ returned.retry_attempts = max_retries
    /\ circuit_open
    /\ circuit_reset_time = now

C21_ThrottledCallReturns ==
    /\ (apc = "idle" /\ log.answer = "throttlingException") =>
          /\ IsSet(returned)
          /\ retry_count + 1 >= max_retries
    /\ (log.requests >= 1 /\ log.request_call = log.calls) => max_retries >= 1
    /\ apc = "rate_limit_sleep" => wake - now <= min_call_interval

\* C22: when the first remote attempt of a call made with max_retries > 1
\* fails with an error that is not a throttling error, the call returns a
\* result with status 'error' after that one request, without a backoff
\* sleep and with the circuit breaker closed.
C22_NonRetryableReturnsAtOnce ==
    [][ ( /\ apc = "request"
          /\ apc' = "idle"
          /\ log'.answer = "other"
          /\ retry_count = 0
          /\ max_retries > 1 )
        => ( /\ IsSet(returned')
             /\ returned'.status = "error"
             /\ returned'.retry_attempts = 1
             /\ log'.requests = log.requests
             /\ wake' = wake
             /\ ~circuit_open'
             /\ circuit_reset_time' = circuit_reset_time ) ]_vars

\* a call made with the default max_retries ended on another error than
\* throttling
C22_Witness ==
    /\ apc = "idle"
    /\ max_retries = DEFAULT_MAX_RETRIES
    /\ log.answer = "other"
    /\ log.request_call = log.calls
    /\ IsSet(returned)
    /\ returned.status = "error"
    /\ returned.retry_attempts = 1
    /\ ~circuit_open

\* invoke_agent is called while the breaker is open
CalledWhileOpen ==
    /\ apc = "idle"
    /\ circuit_open
    /\ log'.calls = log.calls + 1

\* the call is turned away and the breaker stays as it was
StaysOpen ==
    /\ circuit_open'
    /\ circuit_reset_time' = circuit_reset_time
    /\ outcome' = "circuit_open"
    /\ log'.requests = log.requests

C29_RejectedCallChangesNothing ==
    [][ ( /\ log'.calls = log.calls + 1
          /\ outcome' = "circuit_open" )
        => ( /\ circuit_open /\ circuit_open'
             /\ circuit_reset_time' = circuit_reset_time
             /\ last_call_time' = last_call_time
             /\ now' = now
             /\ apc' = "idle"
             /\ wake' = wake
             /\ log'.requests = log.requests
             /\ log'.last_request = log.last_request ) ]_vars

\* two calls in a row were rejected, the second later than the first, and
\* the reset time is still the time of the trip
C29_Witness ==
    /\ outcome = "circuit_open"
    /\ circuit_open
    /\ log.calls = MaxCalls
    /\ log.request_call = log.calls - 2
    /\ log.call_start > log.prev_call_start
    /\ log.prev_call_start >= circuit_reset_time
    /\ last_call_time = log.last_request

(***************************************************************************)
(* invoke_agent reading the response streams: the calls of one caller that *)
(* awaits them one after the other, on every stream of the bounds          *)
(***************************************************************************)
\* a BedrockAgent has been constructed; the stream is what its remote
\* requests answer with
StreamInit ==
    /\ AgentOnly
    /\ NewAgent
    /\ stream \in Streams
    /\ pure = ABSENT
    /\ NoPool

StreamNext ==
    \/ InvokeAgent
    \/ RateLimitWake
    \/ RemoteAnswer

StreamSpec == StreamInit /\ [][StreamNext]_vars

\* the bytes of the chunks among the first i events, in arrival order
RECURSIVE ReceivedBytes(_, _)
ReceivedBytes(events, i) ==
    IF i = 0 THEN <<>>
    ELSE ReceivedBytes(events, i - 1)
            \o ( IF HasKey(ChunkOf(events[i]), "bytes")
                 THEN ChunkOf(events[i]).bytes
                 ELSE <<>> )

\* the UTF-8 bytes of a text of code points below 2048
RECURSIVE Utf8Bytes(_)
Utf8Bytes(text) ==
    IF text = <<>> THEN <<>>
    ELSE ( IF text[1] < 128
           THEN << text[1] >>
           ELSE << 192 + (text[1] \div 64), 128 + (text[1] % 64) >> )
            \o Utf8Bytes(Tail(text))

\* C18: when the remote call succeeds, invoke_agent returns status 'success'
\* with a response text equal to the concatenation, in arrival order, of
\* the bytes of every received chunk; events without chunk bytes contribute
\* nothing, and the text need not be JSON.
C18_ChunksConcatenated ==
    (apc = "idle" /\ log.answer = "success") =>
        /\ IsSet(returned)
        /\ returned.status = "success"
        /\ Utf8Bytes(returned.response) = ReceivedBytes(stream, Len(stream))

(***************************************************************************)
(* Coroutines of one event loop calling invoke_agent on BedrockAgent       *)
(* instances of one process.  A coroutine gives way to the others only at  *)
(* the asyncio.sleep of the rate limiter: client.invoke_agent is a         *)
(* blocking call, so a request and its answer are one step of the loop.    *)
(***************************************************************************)
\* the BedrockAgent instances of the process
Instances == {1, 2}

\* the coroutines that call invoke_agent
Tasks == {1, 2}

\* self.<name> as Python looks it up: the attribute of the instance, else
\* the attribute of the class
GetAttr(cls, insts, self, name) ==
    IF name \in DOMAIN insts[self] THEN insts[self][name] ELSE cls[name]

\* self.<name> = v: the attribute of the instance is set
SetAttr(insts, self, name, v) == [insts EXCEPT ![self] = (name :> v) @@ @]

\* a breaker whose trip is written to the class
trip_circuit_breaker_on_class(cls, insts, self, t) ==
    [ cls |-> ("_circuit_open" :> TRUE) @@ ("_circuit_reset_time" :> t),
      insts |-> insts ]

\* _trip_circuit_breaker (lines 206-210)
trip_circuit_breaker(cls, insts, self, t) ==
    [ cls |-> cls,
      insts |-> SetAttr(SetAttr(insts, self, "_circuit_open", TRUE),
                        self, "_circuit_reset_time", t) ]

\* BedrockAgent.__init__ (lines 194-195)
NewInstance == ("last_call_time" :> 0)

\* a coroutine that has made no call yet on the instance self
NewTask(self) ==
    [ self |-> self, pc |-> "idle", wake |-> 0, max_retries |-> 0,
      outcome |-> "none", calls |-> 0 ]

NoWire == [ requests |-> 0, last_request |-> 0, prev_request |-> 0,
            trips |-> 0, admitted_after |-> 0 ]

\* two instances have been constructed; each coroutine holds one of them
ClientsInit ==
    /\ AgentOnly
    /\ AgentInit
    /\ pure = ABSENT
    /\ class_attrs = ClassAttrs
    /\ instances = [ i \in Instances |-> NewInstance ]
    /\ \E held \in [Tasks -> Instances] :
          tasks = [ c \in Tasks |-> NewTask(held[c]) ]
    /\ wire = [ i \in Instances |-> NoWire ]

\* the number of calls made so far
RECURSIVE CallsMade(_, _)
CallsMade(tk, cs) ==
    IF cs = {} THEN 0
    ELSE LET c == CHOOSE x \in cs : TRUE
         IN  tk[c].calls + CallsMade(tk, cs \ {c})

\* the trips of the breakers of the instances other than self
RECURSIVE OtherTrips(_, _, _)
OtherTrips(w, self, is) ==
    IF is = {} THEN 0
    ELSE LET i == CHOOSE x \in is : TRUE
         IN  (IF i = self THEN 0 ELSE w[i].trips) + OtherTrips(w, self, is \ {i})

\* line 220, then lines 240-298 of the call of coroutine c at time t: the
\* time is noted, the request sent and answered, the result returned
CoLoop(c, t, mr, insts, tk) ==
    LET self == tk[c].self
        stamped == SetAttr(insts, self, "last_call_time",
                           StampedCallTime(t, insts[self]["last_call_time"]))
    IN  IF 0 < mr
        THEN \E a \in RemoteAnswers, took \in 0..MaxLatency :
               LET e == Raised(a, <<>>)
                   tripped == trip_circuit_breaker(class_attrs, stamped, self, t + took)
                   trips == e # "none" /\ ~Retryable(e, 0, mr) /\ Exhausted(0, mr)
               IN  /\ now' = t + took
                   /\ tasks' = [tk EXCEPT ![c].pc = "idle",
                                          ![c].outcome =
                                              IF e = "none" THEN "success"
                                              ELSE IF Retryable(e, 0, mr) THEN "NameError"
                                              ELSE "error"]
                   /\ class_attrs' = IF trips THEN tripped.cls ELSE class_attrs
                   /\ instances' = IF trips THEN tripped.insts ELSE stamped
                   /\ wire' = [wire EXCEPT ![self] =
                                 [@ EXCEPT !.requests = @ + 1,
                                           !.prev_request = wire[self].last_request,
                                           !.last_request = t,
                                           !.trips = @ + (IF trips THEN 1 ELSE 0),
                                           !.admitted_after =
                                               OtherTrips(wire, self, Instances)]]
        ELSE /\ now' = t
             /\ tasks' = [tk EXCEPT ![c].pc = "idle", ![c].outcome = "error"]
             /\ instances' = stamped
             /\ UNCHANGED << class_attrs, wire >>

\* coroutine c calls invoke_agent (lines 234-238, and on when the rate
\* limiter does not sleep)
CoInvoke(c) ==
    /\ tasks[c].pc = "idle"
    /\ CallsMade(tasks, Tasks) < MaxCalls
    /\ \E mr \in MaxRetriesArgs :
         LET self == tasks[c].self
             open == GetAttr(class_attrs, instances, self, "_circuit_open")
             reset == GetAttr(class_attrs, instances, self, "_circuit_reset_time")
             tk == [tasks EXCEPT ![c].calls = @ + 1, ![c].max_retries = mr]
         IN  IF open /\ now - reset < CIRCUIT_RESET_TIMEOUT
             THEN /\ tasks' = [tk EXCEPT ![c].outcome = "circuit_open"]
                  /\ UNCHANGED << now, class_attrs, instances, wire >>
             ELSE LET closed == IF open
                                THEN SetAttr(instances, self, "_circuit_open", FALSE)
                                ELSE instances
                      last == closed[self]["last_call_time"]
                  IN  IF now - last < min_call_interval
                      THEN /\ tasks' = [tk EXCEPT ![c].pc = "rate_limit_sleep",
                                                  ![c].wake = now + SleepTime(now, last),
                                                  ![c].outcome = "running"]
                           /\ instances' = closed
                           /\ UNCHANGED << now, class_attrs, wire >>
                      ELSE CoLoop(c, now, mr, closed, tk)
    /\ UNCHANGED << circuit_open, circuit_reset_time, last_call_time, apc,
                    retry_count, max_retries, wake, outcome, log, stream, returned >>
    /\ UNCHANGED runVars
    /\ UNCHANGED pure

\* the asyncio.sleep of coroutine c is over (lines 219-220) and no other
\* sleep is due before it
CoWake(c) ==
    /\ tasks[c].pc = "rate_limit_sleep"
    /\ \A o \in Tasks : tasks[o].pc = "rate_limit_sleep" => tasks[o].wake >= tasks[c].wake
    /\ \E late \in 0..MaxLatency :
         CoLoop(c, Max(now, tasks[c].wake) + late, tasks[c].max_retries, instances, tasks)
    /\ UNCHANGED << circuit_open, circuit_reset_time, last_call_time, apc,
                    retry_count, max_retries, wake, outcome, log, stream, returned >>
    /\ UNCHANGED runVars
    /\ UNCHANGED pure

ClientsNext == \E c \in Tasks : CoInvoke(c) \/ CoWake(c)

ClientsSpec == ClientsInit /\ [][ClientsNext]_vars

\* C23: the remote requests that coroutines running side by side send
\* through one BedrockAgent instance are at least min_call_interval apart.
C23_SharedInstanceInterval ==
    \A i \in Instances :
        wire[i].requests >= 2 =>
            wire[i].last_request - wire[i].prev_request >= min_call_interval

CallChecks(profile) ==
    IF ChecksRaise(profile)
    THEN [ raised |-> TRUE, value |-> <<>> ]
    ELSE [ raised |-> FALSE, value |-> run_data_quality_checks(profile) ]

\* a DataFrame is at hand
PureInit ==
    /\ \E d \in Datasets : pure = [ stage |-> "data", df |-> d ]
    /\ AgentOnly
    /\ AgentInit
    /\ NoPool

\* profile = get_data_profile(df)
PureProfile ==
    /\ pure.stage = "data"
    /\ pure' = [ stage |-> "profiled", df |-> pure.df,
                 profile |-> get_data_profile(pure.df) ]
    /\ UNCHANGED runVars
    /\ UNCHANGED agentVars
    /\ UNCHANGED poolVars

\* checks = run_data_quality_checks(df, profile)
PureChecks ==
    /\ pure.stage = "profiled"
    /\ pure' = [ stage |-> "checked", df |-> pure.df, profile |-> pure.profile,
                 first |-> CallChecks(pure.profile) ]
    /\ UNCHANGED runVars
    /\ UNCHANGED agentVars
    /\ UNCHANGED poolVars

\* run_data_quality_checks(df, profile) once more
PureChecksAgain ==
    /\ pure.stage = "checked"
    /\ pure' = [ stage |-> "checked_twice", df |-> pure.df, profile |-> pure.profile,
                 first |-> pure.first, second |-> CallChecks(pure.profile) ]
    /\ UNCHANGED runVars
    /\ UNCHANGED agentVars
    /\ UNCHANGED poolVars

PureNext ==
    \/ PureProfile
    \/ PureChecks
    \/ PureChecksAgain

\* the profiler and the rule evaluator applied to one DataFrame
ProfilerSpec == PureInit /\ [][PureNext]_vars

\* the cells of a column that are not None
NonNullCells(c) == { j \in 1..Len(c.vals) : c.vals[j] # NONE }

\* C11: the profile of every DataFrame reports the number of its rows as
\* row_count, and for every column that was profiled null_count plus the
\* number of cells that are not None is row_count.
C11_RowAndNullCounts ==
    pure.stage # "data" =>
        /\ pure.profile.row_count = pure.df.nrows
        /\ \A i \in 1..Len(pure.df.cols) :
              LET e == pure.profile.columns[i] IN
              HasKey(e, "null_count") =>
                  /\ Len(pure.df.cols[i].vals) = pure.df.nrows
                  /\ e.null_count + Cardinality(NonNullCells(pure.df.cols[i]))
                       = pure.profile.row_count

\* the profile of three rows and two columns, a column holding one None
C11_Witness ==
    /\ pure.stage = "profiled"
    /\ pure.df.nrows = 3
    /\ Len(pure.df.cols) = 2
    /\ pure.profile.row_count = 3
    /\ HasKey(pure.profile.columns[1], "null_count")
    /\ pure.profile.columns[1].null_count = 1
    /\ Cardinality(NonNullCells(pure.df.cols[1])) = 2

\* C12: in every profile the null_percentage and the unique_percentage of
\* a column lie between 0 and 100, and both are 0 when the DataFrame has
\* no rows.
C12_PercentagesInRange ==
    pure.stage # "data" =>
        \A i \in 1..Len(pure.profile.columns) :
            LET e == pure.profile.columns[i] IN
            HasKey(e, "null_percentage") =>
                /\ 0 <= e.null_percentage /\ e.null_percentage <= 100
                /\ 0 <= e.unique_percentage /\ e.unique_percentage <= 100
                /\ pure.df.nrows = 0 =>
                      e.null_percentage = 0 /\ e.unique_percentage = 0

\* the profile of a DataFrame with a column and no rows
C12_Witness ==
    /\ pure.stage = "profiled"
    /\ pure.df.nrows = 0
    /\ Len(pure.profile.columns) > 0
    /\ pure.profile.columns[1].null_percentage = 0
    /\ pure.profile.columns[1].unique_percentage = 0

\* C28: for a string column, max_length, min_length and avg_length are
\* taken over the string representations of the non-null values only: null
\* entries add no length to any of the three.
C28_LengthsOfNonNullOnly ==
    pure.stage # "data" =>
        \A c \in 1..Len(pure.df.cols) :
            LET stats == pure.profile.columns[c]
                kept == NonNull(pure.df.cols[c].vals)
            IN  HasKey(stats, "max_length") =>
                    /\ stats.max_length = MaxLen(kept)
                    /\ stats.min_length = MinLen(kept)
                    /\ stats.avg_length =
                          IF Len(kept) = 0 THEN 0
                          ELSE (SumLen(kept, 1) * 100) \div Len(kept)

\* the place of the column named n in the profile
PlaceOf(profile, n) ==
    CHOOSE i \in 1..Len(profile.columns) : profile.columns[i].column = n

\* C13 (state part): two calls of run_data_quality_checks on the same
\* DataFrame and profile give the same findings (or both raise), and the
\* findings follow the order of the columns of the profile.
C13_SameOrderedFindings ==
    /\ pure.stage = "checked_twice" => pure.second = pure.first
    /\ (pure.stage \in {"checked", "checked_twice"} /\ ~pure.first.raised) =>
          \A i, j \in 1..Len(pure.first.value) :
              i < j => PlaceOf(pure.profile, pure.first.value[i].column)
                         < PlaceOf(pure.profile, pure.first.value[j].column)

\* C13 (step part): a call of run_data_quality_checks changes neither the
\* DataFrame nor the profile
C13_InputsKept ==
    pure.stage \in {"profiled", "checked"} =>
        /\ pure'.df = pure.df
        /\ pure'.profile = pure.profile

====
